---- MODULE Spec2Model ----
(***************************************************************************)
(* Work-queue / pipeline orchestration of the Instagram content generator. *)
(*                                                                         *)
(* Modelled from src/src/modules/scheduler.py (ContentProcessor,           *)
(* InstagramScheduler) and src/src/main.py (run_single_scan).  The         *)
(* FileScanner (modules/video_scanner.py) is imported by both but its      *)
(* source is not available: its lifecycle table and dequeue protocol are   *)
(* modelled from sections 4.1 - 4.3 of the specification.                  *)
(*                                                                         *)
(* Spec          : the continuous mode and the single scan, within one     *)
(*                 retention window                                        *)
(* FairSpec      : the continuous mode with fairly scheduled threads       *)
(* RetentionSpec : the continuous mode with ageing entries and the daily   *)
(*                 cleanup                                                 *)
(* DiscoverySpec : the FileScanner alone, over the paths of an input tree  *)
(* StartupSpec   : one command-line invocation, from its arguments to its  *)
(*                 exit code                                               *)
(* UploaderSpec  : the uploaders of the managed users and their daily      *)
(*                 counters                                                *)
(* PipelineSpec  : process_file stage by stage, with the uploader cache    *)
(***************************************************************************)
EXTENDS Integers, Sequences, FiniteSets, TLC

\* ------------------------------------------------------------------ bounds
NumFiles == 1
Files == 1..NumFiles
NoFile == 0

\* paths of one user's input tree, for the discovery specification
NumPaths == 3
Paths == 1..NumPaths

\* Processing-loop threads that start() can create over the life of one
\* scheduler object (a second one exists after a stop() whose join timed out).
Threads == {"t1", "t2"}

\* content_type of a queue record: file_info.get('content_type', 'unknown')
ContentTypes == {"image", "video", "unknown"}

\* upload_result.get("error", ...): the uploader's error text, possibly empty
UploadErrors == {"", "Rate limited", "Content feedback required"}

\* the error upload_photo / upload_video return on FeedbackRequired
ContentRejected == "Content feedback required"

\* max_attempts passed by the processing loop, and mark_failed's default
LoopMaxAttempts == 3
DefaultMaxAttempts == 3

\* usernames given on the command line (--users)
Users == {"u1", "u2"}
UserLists == {<<"u1">>, <<"u1", "u2">>, <<"u1", "u1">>}

\* the user whose input tree holds the files of the model
FileUser == "u1"

\* the jobs _setup_schedule registers, in the order it registers them
Triggers == <<"_scheduled_scan", "_system_health_check", "_daily_cleanup",
              "_hourly_stats">>

VARIABLES
    queue,        \* FileScanner lifecycle table: file hash -> [status, attempts, error]
    order,        \* first-seen order of the recorded hashes (FIFO dequeue order)
    loc,          \* where the backing file is: "none", "input", "processed", "failed"
    ctype,        \* content type the scanner recorded for the file
    sidecar,      \* error text of the .meta record in the failed directory, or "none"
    is_running,   \* InstagramScheduler.is_running
    mainPc,       \* position of the main thread (run command or scan command)
    stopResult,   \* how the last stop() ended: "none", "joined", "timeout"
    processing_thread, \* InstagramScheduler.processing_thread, "none" before start()
    tpc,          \* position of each processing-loop thread
    tcur,         \* next_file of each processing-loop thread
    tsucc,        \* success of each processing-loop thread's last process_file call
    scanCur,      \* next_file of the single-scan drain loop
    failures,     \* history: number of failed attempts per file
    metaCurrent,  \* history: the .meta record was written by the file's last failed attempt
    uploads,      \* history: number of successful uploads the uploader reported per file
    dequeues,     \* history: number of times get_next_file returned the file
    owner,        \* history: the consumer whose acquire of the entry succeeded last
    rejected,     \* history: the uploader answered FeedbackRequired for the file
    failureCounts, \* ContentProcessor.stats: analysis_failures + caption_failures + failed_uploads
    relocations,  \* history: relocations of the file that went through, and whether one was tried after that
    uploader,     \* ContentProcessor.instagram_uploaders[user]: "none", "active", "logged_out"
    inScheduleLoop, \* start() is inside _schedule_loop
    old,          \* the entry is older than the retention window
    tree,         \* fingerprint of the bytes at each path of the user's input tree
    found,        \* number of entries the last scan of the tree recorded, -1 after any other step
    managed_users, \* InstagramScheduler.managed_users
    triggers,     \* jobs registered with the trigger library, per trigger
    cli,          \* the command-line invocation: command, position, exit code
    upl,          \* the InstagramUploader instances and the platform account's day
    proc          \* one process_file call, stage by stage, and the uploader cache

vars == <<queue, order, loc, ctype, sidecar, is_running, mainPc, stopResult,
          processing_thread, tpc, tcur, tsucc, scanCur,
          failures, metaCurrent, uploads, dequeues, owner,
          rejected, failureCounts, relocations, uploader, inScheduleLoop, old,
          tree, found,
          managed_users, triggers, cli, upl, proc>>

\* the state of the command line, of the uploader instances and of the
\* stage-by-stage pipeline
auxVars == <<managed_users, cli, upl, proc>>

fsVars == <<loc, ctype, sidecar>>
threadVars == <<processing_thread, tpc, tcur, tsucc>>
histVars == <<failures, metaCurrent, uploads, dequeues, owner,
              rejected, failureCounts, relocations>>

Statuses == {"NONE", "DISCOVERED", "PROCESSING", "COMPLETED", "FAILED"}
Terminal == {"COMPLETED", "FAILED"}

\* ------------------------------------------------- lifecycle table (4.1)
NoEntry == [status |-> "NONE", attempts |-> 0, error |-> ""]

\* a record operation that starts the entry afresh whatever its state
record_always(q, f) ==
    [q EXCEPT ![f] = [status |-> "DISCOVERED", attempts |-> 0, error |-> ""]]

\* record_if_new: a DISCOVERED entry iff the fingerprint is unknown
record_if_new(q, f) ==
    IF q[f].status = "NONE"
    THEN [q EXCEPT ![f] = [status |-> "DISCOVERED", attempts |-> 0, error |-> ""]]
    ELSE q

\* try_acquire_for_processing: DISCOVERED -> PROCESSING, else no change
try_acquire_for_processing(q, f) ==
    IF q[f].status = "DISCOVERED"
    THEN [q EXCEPT ![f].status = "PROCESSING"]
    ELSE q

\* complete: PROCESSING -> COMPLETED
complete(q, f) ==
    IF q[f].status = "PROCESSING"
    THEN [q EXCEPT ![f].status = "COMPLETED"]
    ELSE q

\* fail: increments attempts; below max back to DISCOVERED, otherwise FAILED
\* with the error recorded
fail(q, f, err, max) ==
    IF q[f].status = "NONE"
    THEN q
    ELSE IF q[f].attempts + 1 < max
         THEN [q EXCEPT ![f].attempts = @ + 1, ![f].status = "DISCOVERED"]
         ELSE [q EXCEPT ![f].attempts = @ + 1, ![f].status = "FAILED",
                        ![f].error = err]

\* ------------------------------------------------ FileScanner entry points
\* mark_processing(hash): the acquire, its result is what the caller gets
mark_processing(q, f) == try_acquire_for_processing(q, f)

\* mark_completed(hash, success): the table's complete(fingerprint); the
\* table operation has no outcome parameter
mark_completed(q, f, success) == complete(q, f)

\* mark_failed(hash, error, max_attempts=3)
mark_failed(q, f, err, max) == fail(q, f, err, max)

\* a cleanup that removes every entry older than the window
purge_older_than(q, isOld) ==
    [f \in Files |-> IF isOld[f] THEN NoEntry ELSE q[f]]

\* purge_terminal_older_than: removes the COMPLETED and FAILED entries older
\* than the retention window
purge_terminal_older_than(q, isOld) ==
    [f \in Files |-> IF q[f].status \in Terminal /\ isOld[f] THEN NoEntry ELSE q[f]]

\* cleanup_old_entries(days_to_keep)
cleanup_old_entries(q, isOld) == purge_terminal_older_than(q, isOld)

\* the first-seen order without the removed entries
RECURSIVE KeepRecorded(_, _)
KeepRecorded(q, ord) ==
    IF ord = <<>> THEN <<>>
    ELSE (IF q[Head(ord)].status = "NONE" THEN <<>> ELSE <<Head(ord)>>)
         \o KeepRecorded(q, Tail(ord))

\* a dequeue that does not look at the entry's state
FirstRecorded(q, ord) == IF ord = <<>> THEN NoFile ELSE ord[1]

\* 4.3 step 1: the oldest DISCOVERED entry in first-seen order
FirstDiscovered(q, ord) ==
    LET idx == {i \in 1..Len(ord) : q[ord[i]].status = "DISCOVERED"}
    IN  IF idx = {} THEN NoFile
        ELSE ord[CHOOSE i \in idx : \A j \in idx : i <= j]

\* a dequeue that returns the candidate without acquiring it
PeekNextFile(q, ord) == q

\* 4.3 steps 2-3: get_next_file acquires the candidate it returns
get_next_file_table(q, ord) ==
    IF FirstDiscovered(q, ord) = NoFile THEN q
    ELSE try_acquire_for_processing(q, FirstDiscovered(q, ord))

\* fingerprints in increasing order (ties of one scan broken by fingerprint)
RECURSIVE SeqOfSet(_)
SeqOfSet(S) ==
    IF S = {} THEN <<>>
    ELSE LET m == CHOOSE x \in S : \A y \in S : x <= y
         IN  <<m>> \o SeqOfSet(S \ {m})

\* scan_user_directories: the files of the input tree whose hash is unknown
NewlyFound(q, l) == {f \in Files : l[f] = "input" /\ q[f].status = "NONE"}

RECURSIVE RecordAll(_, _)
RecordAll(q, S) ==
    IF S = {} THEN q
    ELSE LET f == CHOOSE x \in S : TRUE
         IN  RecordAll(record_if_new(q, f), S \ {f})


\* history of the acquires: c becomes the owner when its call moved the entry
\* from DISCOVERED to PROCESSING
OwnerAfter(c, f, q, q2) ==
    IF f # NoFile /\ q[f].status = "DISCOVERED" /\ q2[f].status = "PROCESSING"
    THEN [owner EXCEPT ![f] = c]
    ELSE owner

Released(c, f) == IF owner[f] = c THEN [owner EXCEPT ![f] = "none"] ELSE owner

\* ------------------------------------------------------- command line
\* no command given yet
NoCommand ==
    [cmd |-> "none", pc |-> "idle", at |-> "idle", exit |-> -1,
     usernames |-> <<>>, todo |-> <<>>, oks |-> <<>>, success_count |-> 0,
     error |-> FALSE, raised |-> FALSE]

\* return <code>: the command ends at position pc with the exit code; err
\* tells whether an error was met at this point
Return(c, code, err) ==
    [c EXCEPT !.at = c.pc, !.pc = "done", !.exit = code, !.error = c.error \/ err]

\* a setup_users that succeeds only when every user was added
SetupUsersAll(success_count, n) == success_count = n

\* setup_users' return value: success_count == len(usernames), or else
\* success_count > 0
SetupUsersResult(success_count, n) == success_count = n \/ success_count > 0

\* add_user's return value: True for a managed user, else the result of
\* add_user_directory (ok is False when it returns False or raises)
AddUserResult(mu, u, ok) == u \in mu \/ ok

\* an add_user that adds the user whether or not the directory registered
ManagedAfterAlways(mu, u, ok) == mu \cup {u}

\* self.managed_users after add_user(u)
ManagedAfter(mu, u, ok) == IF u \notin mu /\ ok THEN mu \cup {u} ELSE mu

\* --------------------------------------------------- InstagramUploader
\* days the uploaders live through after the first one
MaxDay == 1

\* self.max_daily_uploads
max_daily_uploads == 50

\* what an upload call can meet once it is past the rate-limit check
UploadEvents == {"ok", "prepare_failed", "feedback_required", "please_wait", "error"}

\* no upload call has returned yet
NoResult == [success |-> FALSE, error |-> "none", retry_after |-> "absent"]

\* no uploader created; posted counts the uploads the platform account has
\* accepted today
NoUploaders ==
    [cached |-> [u \in Users |-> FALSE],
     daily_uploads |-> [u \in Users |-> 0],
     last_reset_date |-> [u \in Users |-> 0],
     today |-> 0,
     posted |-> 0,
     last |-> NoResult]

\* _check_rate_limits, first half: the counter restarts on a new day
DailyAfterReset(daily, last_reset, today) == IF today > last_reset THEN 0 ELSE daily

\* _check_rate_limits, second half
WithinLimits(daily) == daily < max_daily_uploads

\* _get_retry_time: until tomorrow when the daily limit is reached, else the
\* inter-upload delay
GetRetryTime(daily) ==
    IF daily >= max_daily_uploads THEN "until_tomorrow" ELSE "upload_delay"

\* a please-wait answer reported without a retry time
PleaseWaitResultBare ==
    [success |-> FALSE, error |-> "Rate limited", retry_after |-> "absent"]

\* except PleaseWaitFewMinutes: retry_after is 15 * 60
PleaseWaitResult ==
    [success |-> FALSE, error |-> "Rate limited", retry_after |-> "15min"]

\* the dictionary upload_photo / upload_video return; daily is the counter
\* after the reset of _check_rate_limits
UploadResult(daily, ev) ==
    IF ~WithinLimits(daily)
    THEN [success |-> FALSE, error |-> "Rate limit exceeded",
          retry_after |-> GetRetryTime(daily)]
    ELSE CASE ev = "ok" ->
                [success |-> TRUE, error |-> "", retry_after |-> "absent"]
           [] ev = "prepare_failed" ->
                [success |-> FALSE, error |-> "Failed to prepare", retry_after |-> "absent"]
           [] ev = "feedback_required" ->
                [success |-> FALSE, error |-> ContentRejected, retry_after |-> "absent"]
           [] ev = "please_wait" -> PleaseWaitResult
           [] OTHER ->
                [success |-> FALSE, error |-> "error", retry_after |-> "absent"]

\* get_or_create_uploader(u) for a user without a cached uploader, when the
\* login goes through: a new InstagramUploader built from the global
\* credentials, its counter at 0
UplCreate(u) ==
    /\ ~upl.cached[u]
    /\ upl' = [upl EXCEPT !.cached[u] = TRUE,
                          !.daily_uploads[u] = 0,
                          !.last_reset_date[u] = upl.today]
    /\ UNCHANGED <<managed_users, cli, proc, triggers, old, tree, found, uploader,
                   inScheduleLoop, queue, order, fsVars, is_running, mainPc,
                   stopResult, threadVars, scanCur, histVars>>

\* upload_photo / upload_video on user u's uploader
UplUpload(u, ev) ==
    /\ upl.cached[u]
    /\ LET daily == DailyAfterReset(upl.daily_uploads[u], upl.last_reset_date[u],
                                    upl.today)
           res == UploadResult(daily, ev)
       IN  upl' = [upl EXCEPT
                      !.last_reset_date[u] = upl.today,
                      !.daily_uploads[u] = IF res.success THEN daily + 1 ELSE daily,
                      !.posted = IF res.success THEN @ + 1 ELSE @,
                      !.last = res]
    /\ UNCHANGED <<managed_users, cli, proc, triggers, old, tree, found, uploader,
                   inScheduleLoop, queue, order, fsVars, is_running, mainPc,
                   stopResult, threadVars, scanCur, histVars>>

\* midnight: a new day begins for the platform account
UplMidnight ==
    /\ upl.today < MaxDay
    /\ upl' = [upl EXCEPT !.today = @ + 1, !.posted = 0]
    /\ UNCHANGED <<managed_users, cli, proc, triggers, old, tree, found, uploader,
                   inScheduleLoop, queue, order, fsVars, is_running, mainPc,
                   stopResult, threadVars, scanCur, histVars>>

\* ------------------------------------------------------ ContentAnalyzer
\* what analyze_file can run into: magic cannot sniff the file, the image
\* cannot be opened, the captioning model, the classifier, the feature or
\* the metadata extraction fails, a video yields no frame, or anything else
\* goes wrong in the body
AnalyzerFaults ==
    {"none", "magic", "open", "caption_model", "classifier", "features",
     "metadata", "no_frames", "unexpected"}

ErrorResult == [keys |-> {"error"}, raised |-> FALSE]

AnalysisKeys ==
    {"file_type", "caption", "category", "confidence", "visual_features",
     "metadata", "file_path"}

\* an analyzer whose handlers let an unexpected exception through
AnalyzerCatchesExceptUnexpected(fault) == fault # "unexpected"

\* analyze_file, _analyze_image and _analyze_video each run inside
\* try / except Exception and return {"error": str(e)}
AnalyzerCatches(fault) == TRUE

\* _analyze_image: the helpers answer their own failures with a default
\* ("Image content", ("general", 0.0), {}), so only opening the image or an
\* unexpected exception gives an error result
analyze_image(fault) ==
    IF fault \in {"open", "unexpected"}
    THEN ErrorResult
    ELSE [keys |-> AnalysisKeys, raised |-> FALSE]

\* _analyze_video: no frames (also when the extraction fails) is an error
analyze_video(fault) ==
    IF fault \in {"open", "no_frames", "unexpected"}
    THEN ErrorResult
    ELSE [keys |-> AnalysisKeys \cup {"frame_count"}, raised |-> FALSE]

\* analyze_file(file_path); ft is what the file's bytes are
analyze_file(ft, fault) ==
    IF ~AnalyzerCatches(fault)
    THEN [keys |-> {}, raised |-> TRUE]
    ELSE LET file_type == IF fault = "magic" THEN "unknown" ELSE ft
         IN  IF file_type = "image" THEN analyze_image(fault)
             ELSE IF file_type = "video" THEN analyze_video(fault)
             ELSE ErrorResult

\* ----------------------------------------------------- CaptionGenerator
\* what generate_caption can run into: the remote call fails, or one of the
\* later steps (emojis, hashtags, trimming) raises
CaptionFaults == {"none", "llm", "emojis", "hashtags", "trim"}

\* a generator that lets the failure of the remote call through
CaptionCatchesExceptLlm(fault) == fault # "llm"

\* _generate_ai_caption catches every exception of the remote call and
\* generate_caption every exception of its body
CaptionCatches(fault) == TRUE

\* generate_caption(analysis_result, username, style): the caption of the
\* remote model, the template of _generate_simple_caption in its place when
\* the call failed, the template of _generate_fallback_caption when a later
\* step raised
generate_caption(fault) ==
    IF ~CaptionCatches(fault)
    THEN [text |-> FALSE, source |-> "none", raised |-> TRUE]
    ELSE [text |-> TRUE,
          source |-> CASE fault = "none" -> "ai"
                       [] fault = "llm"  -> "simple_template"
                       [] OTHER          -> "fallback_template",
          raised |-> FALSE]

\* ------------------------------------------- process_file, stage by stage
\* process_file calls made in all
MaxCalls == 2

StatNames ==
    {"total_processed", "successful_uploads", "failed_uploads",
     "analysis_failures", "caption_failures"}

\* the counters of SystemMonitor.stats that update_stats increments
MonitorCounters == {"processed_files", "successful_uploads", "failed_uploads"}

NoAnalysis == [keys |-> {}, raised |-> FALSE]
NoCaption == [text |-> FALSE, source |-> "none", raised |-> FALSE]

\* a ContentProcessor after __init__, no process_file call made
NoCall ==
    [pc |-> "idle", n |-> 0, user |-> "none", ctype |-> "unknown",
     calls |-> <<>>, failed |-> "none", kind |-> "none", result |-> FALSE,
     analysis |-> NoAnalysis, caption |-> NoCaption, captionFault |-> "none",
     resolved |-> 0, videosInPath |-> FALSE, dest |-> "none",
     stats |-> [c \in StatNames |-> 0],
     monitor |-> [c \in MonitorCounters |-> 0],
     instagram_uploaders |-> [u \in Users |-> 0],
     constructed |-> 0,
     creations |-> [u \in Users |-> 0],
     authenticate_calls |-> [u \in Users |-> 0]]

\* a process_file that goes on whatever the analyzer returned
HasErrorNever(res) == FALSE

\* if "error" in analysis_result
HasError(res) == "error" \in res.keys

\* a processor that builds a new uploader on every call
IsCachedNever(cache, u) == FALSE

\* if username not in self.instagram_uploaders
IsCached(cache, u) == cache[u] # 0

\* ---------------------------------------------------------------- Init
Init ==
    /\ queue = [f \in Files |-> NoEntry]
    /\ order = <<>>
    /\ loc = [f \in Files |-> "none"]
    /\ ctype = [f \in Files |-> "image"]
    /\ sidecar = [f \in Files |-> "none"]
    /\ is_running = FALSE
    /\ mainPc \in {"new", "scan_new"}
    /\ stopResult = "none"
    /\ processing_thread = "none"
    /\ tpc = [t \in Threads |-> "unborn"]
    /\ tcur = [t \in Threads |-> NoFile]
    /\ tsucc = [t \in Threads |-> FALSE]
    /\ scanCur = NoFile
    /\ failures = [f \in Files |-> 0]
    /\ metaCurrent = [f \in Files |-> FALSE]
    /\ uploads = [f \in Files |-> 0]
    /\ dequeues = [f \in Files |-> 0]
    /\ owner = [f \in Files |-> "none"]
    /\ rejected = [f \in Files |-> FALSE]
    /\ failureCounts = 0
    /\ relocations = [f \in Files |-> [moved |-> 0, late |-> FALSE]]
    /\ uploader = "none"
    /\ inScheduleLoop = FALSE
    /\ old = [f \in Files |-> FALSE]
    /\ tree = [p \in Paths |-> NoFile]
    /\ found = -1
    /\ managed_users = {}
    /\ triggers = [i \in 1..Len(Triggers) |-> 0]
    /\ cli = NoCommand
    /\ upl = NoUploaders
    /\ proc = NoCall

\* -------------------------------------------------------- environment
\* An operator drops a media file into the user's input tree.  Fingerprints
\* are interchangeable, so they are handed out in increasing order.
DropFile(f, ct) ==
    /\ loc[f] = "none"
    /\ \A g \in Files : g < f => loc[g] # "none"
    /\ loc' = [loc EXCEPT ![f] = "input"]
    /\ ctype' = [ctype EXCEPT ![f] = ct]
    /\ UNCHANGED <<auxVars, triggers, old, tree, found, uploader, inScheduleLoop,
                   queue, order, sidecar, is_running, mainPc, stopResult,
                   threadVars, scanCur, histVars>>

\* ---------------------------------------------------- discovery (4.2)
ScanUserDirectories ==
    /\ queue' = RecordAll(queue, NewlyFound(queue, loc))
    /\ order' = order \o SeqOfSet(NewlyFound(queue, loc))

\* scan_user_directories(u): the files of the model are FileUser's
ScanUser(u) ==
    IF u = FileUser THEN ScanUserDirectories ELSE UNCHANGED <<queue, order>>

\* InstagramScheduler.add_user(FileUser): a user not yet managed whose
\* directory registers is scanned once and added to managed_users
AddUser(ok) ==
    /\ mainPc = "new"
    /\ managed_users' = ManagedAfter(managed_users, FileUser, ok)
    /\ IF managed_users' # managed_users
       THEN ScanUser(FileUser)
       ELSE UNCHANGED <<queue, order>>
    /\ UNCHANGED <<cli, upl, proc, triggers, old, tree, found, uploader, inScheduleLoop,
                   fsVars, is_running, mainPc, stopResult, threadVars,
                   scanCur, histVars>>

\* InstagramScheduler._scheduled_scan, fired by the trigger loop:
\* for username in self.managed_users: scan_user_directories(username)
ScheduledScan ==
    /\ mainPc = "schedule_loop"
    /\ is_running
    /\ IF FileUser \in managed_users
       THEN ScanUser(FileUser)
       ELSE UNCHANGED <<queue, order>>
    /\ UNCHANGED <<auxVars, triggers, old, tree, found, uploader, inScheduleLoop,
                   fsVars, is_running, mainPc, stopResult, threadVars,
                   scanCur, histVars>>

\* ------------------------------------------------ ContentProcessor
Supported(f) == ctype[f] \in {"image", "video"}

\* an analyzer that has its result whether or not the file is there
AnalyzableAnywhere(l) == TRUE

\* analyze_file sniffs the file at its source path (magic.from_file)
Analyzable(l) == l = "input"

\* What one process_file call can meet.  A file that is no longer at its
\* source path cannot be sniffed, so the analyzer reports an error.
PipelineOutcomes(f) ==
    IF ~Analyzable(loc[f])
    THEN {[kind |-> "analysis_error", err |-> "Unsupported file type", moved |-> FALSE]}
    ELSE {[kind |-> k, err |-> k, moved |-> FALSE] :
              k \in {"analysis_error", "caption_error", "exception"}
                     \cup (IF uploader = "none" THEN {"no_uploader"} ELSE {})}
         \cup (IF Supported(f)
               THEN {[kind |-> "upload_ok", err |-> "", moved |-> m] : m \in BOOLEAN}
                    \cup {[kind |-> "upload_fail", err |-> e, moved |-> m] :
                              e \in UploadErrors, m \in BOOLEAN}
               ELSE {[kind |-> "unsupported", err |-> "unsupported", moved |-> FALSE]})

\* get_or_create_uploader: the cached uploader whatever its session state,
\* or a new one that authenticated; a failed creation caches nothing
UploaderAfter(o) ==
    IF o.kind \in {"unsupported", "upload_ok", "upload_fail"} /\ uploader = "none"
    THEN "active"
    ELSE uploader

\* a process_file that returns True on every path
ProcessResultAlways(o) == TRUE

\* process_file's return value
ProcessResult(o) == o.kind = "upload_ok"

\* the self.stats counter each branch of process_file increments
StatCounter(o) ==
    CASE o.kind = "analysis_error" -> "analysis_failures"
      [] o.kind = "caption_error"  -> "caption_failures"
      [] o.kind = "upload_ok"      -> "successful_uploads"
      [] OTHER                     -> "failed_uploads"

FailureCounters == {"analysis_failures", "caption_failures", "failed_uploads"}

\* a process_file whose handlers let an unexpected exception through
CaughtExceptUnexpected(o) == o.kind # "exception"

\* process_file's body is one try block whose except Exception returns False:
\* no stage's failure leaves the call as an exception
Caught(o) == TRUE

\* _move_to_processed(file_path, username, status, error_msg): called on
\* upload success ("success") and on every upload failure ("failed");
\* o.moved is whether shutil.move went through (its exception is swallowed)
MoveDestination(o) ==
    IF o.kind = "upload_ok" THEN "processed"
    ELSE IF o.kind = "upload_fail" THEN "failed"
    ELSE "input"

MovedLoc(f, o) ==
    IF o.moved /\ MoveDestination(o) # "input" THEN MoveDestination(o) ELSE loc[f]

\* the .meta record: written after the move, only when status == "failed"
\* and error_msg is non-empty
WritesSidecar(o) == o.kind = "upload_fail" /\ o.moved /\ o.err # ""

MovedSidecar(f, o) == IF WritesSidecar(o) THEN o.err ELSE sidecar[f]

\* process_file calls _move_to_processed in this branch
Relocates(o) == MoveDestination(o) # "input"

\* history of the relocations of one file
RelocationsAfter(r, o) ==
    IF Relocates(o)
    THEN [moved |-> IF o.moved THEN r.moved + 1 ELSE r.moved,
          late  |-> r.late \/ r.moved > 0]
    ELSE r

\* history of one attempt
RecordAttempt(f, o) ==
    /\ failures' = [failures EXCEPT ![f] = IF ProcessResult(o) THEN @ ELSE @ + 1]
    /\ metaCurrent' = [metaCurrent EXCEPT ![f] =
                          IF ProcessResult(o) THEN @ ELSE WritesSidecar(o)]
    /\ uploads' = [uploads EXCEPT ![f] = IF o.kind = "upload_ok" THEN @ + 1 ELSE @]
    /\ rejected' = [rejected EXCEPT ![f] =
                       @ \/ (o.kind = "upload_fail" /\ o.err = ContentRejected)]


\* --------------------------------------------- InstagramScheduler
Alive(t) == tpc[t] \notin {"unborn", "dead"}

\* threading.Thread(target=self._processing_loop): thread objects are
\* interchangeable, so they are handed out in a fixed order
NewThread == IF tpc["t1"] = "unborn" THEN "t1" ELSE "t2"

\* _setup_schedule: the first k registrations go through; with k below the
\* number of triggers the next one raises, which the method's own handler
\* logs and swallows
SetupSchedule(tr, k) == [i \in 1..Len(Triggers) |-> IF i <= k THEN tr[i] + 1 ELSE tr[i]]

\* start() past its is_running test: _setup_schedule, is_running = True, a new
\* processing thread started, the trigger loop entered
StartBody(k) ==
    /\ mainPc \in {"new", "stopped"}
    /\ ~is_running
    /\ ~inScheduleLoop
    /\ tpc[NewThread] = "unborn"
    /\ triggers' = SetupSchedule(triggers, k)
    /\ tpc' = [tpc EXCEPT ![NewThread] = "top"]
    /\ processing_thread' = NewThread
    /\ inScheduleLoop' = TRUE
    /\ is_running' = TRUE
    /\ mainPc' = "schedule_loop"
    /\ stopResult' = "none"
    /\ UNCHANGED <<managed_users, upl, proc, old, tree, found, uploader,
                   queue, order, fsVars, tcur, tsucc, scanCur, histVars>>

\* start(): registers the triggers, sets is_running, starts a new processing
\* thread and enters the trigger loop; called by the thread whose earlier
\* start() call, if any, has returned
Start ==
    /\ StartBody(Len(Triggers))
    /\ UNCHANGED cli

\* _schedule_loop: while self.is_running ends, start() returns True
ScheduleLoopExit ==
    /\ inScheduleLoop
    /\ ~is_running
    /\ inScheduleLoop' = FALSE
    /\ UNCHANGED <<auxVars, triggers, old, tree, found, uploader, queue, order, fsVars, is_running,
                   mainPc, stopResult, threadVars, scanCur, histVars>>

\* for uploader in instagram_uploaders.values(): uploader.logout()
LoggedOut(u) == IF u = "none" THEN "none" ELSE "logged_out"

\* stop(), first half: clears is_running and stops the watchers; called from
\* the signal handler or by another caller while start() is in the trigger loop
StopBegin ==
    /\ mainPc = "schedule_loop"
    /\ is_running' = FALSE
    /\ mainPc' = "stop_join"
    /\ UNCHANGED <<auxVars, triggers, old, tree, found, uploader, inScheduleLoop,
                   queue, order, fsVars, stopResult, threadVars, scanCur, histVars>>

\* stop(), second half: processing_thread.join(timeout=30) returns because
\* the thread ended (or it was not alive), then logout and monitor shutdown
StopJoined ==
    /\ mainPc = "stop_join"
    /\ ~Alive(processing_thread)
    /\ mainPc' = "stopped"
    /\ stopResult' = "joined"
    /\ uploader' = LoggedOut(uploader)
    /\ UNCHANGED <<auxVars, triggers, old, tree, found, inScheduleLoop,
                   queue, order, fsVars, is_running, threadVars, scanCur, histVars>>

\* stop(), second half: join(timeout=30) gives up after 30 seconds with the
\* thread still alive, then logout and monitor shutdown
StopJoinTimeout ==
    /\ mainPc = "stop_join"
    /\ Alive(processing_thread)
    /\ mainPc' = "stopped"
    /\ stopResult' = "timeout"
    /\ uploader' = LoggedOut(uploader)
    /\ UNCHANGED <<auxVars, triggers, old, tree, found, inScheduleLoop,
                   queue, order, fsVars, is_running, threadVars, scanCur, histVars>>

\* ------------------------------------------- _processing_loop, per thread
\* a loop whose condition never turns false
LoopRunsForever(running) == TRUE

\* while self.is_running:
LoopRuns(running) == running

\* while self.is_running: leaves the loop
LoopExit(t) ==
    /\ tpc[t] = "top"
    /\ ~LoopRuns(is_running)
    /\ tpc' = [tpc EXCEPT ![t] = "dead"]
    /\ UNCHANGED <<auxVars, triggers, old, tree, found, uploader, inScheduleLoop,
                   queue, order, fsVars, is_running, mainPc, stopResult,
                   processing_thread, tcur, tsucc, scanCur, histVars>>

\* next_file = self.file_scanner.get_next_file(); without a file the loop
\* sleeps, reports the queue size and comes back
LoopGetNext(t) ==
    /\ tpc[t] = "top"
    /\ LoopRuns(is_running)
    /\ queue' = get_next_file_table(queue, order)
    /\ LET f == FirstDiscovered(queue, order)
       IN  IF f = NoFile
           THEN UNCHANGED <<tpc, tcur, dequeues>>
           ELSE /\ tpc' = [tpc EXCEPT ![t] = "got"]
                /\ tcur' = [tcur EXCEPT ![t] = f]
                /\ dequeues' = [dequeues EXCEPT ![f] = @ + 1]
    /\ owner' = OwnerAfter(t, FirstDiscovered(queue, order), queue, queue')
    /\ UNCHANGED <<auxVars, triggers, old, tree, found, uploader, inScheduleLoop,
                   order, fsVars, is_running, mainPc, stopResult,
                   processing_thread, tsucc, scanCur, failures, metaCurrent, uploads,
                   rejected, failureCounts, relocations>>

\* self.file_scanner.mark_processing(next_file['file_hash']), result unused
LoopMarkProcessing(t) ==
    /\ tpc[t] = "got"
    /\ queue' = mark_processing(queue, tcur[t])
    /\ tpc' = [tpc EXCEPT ![t] = "in_process"]
    /\ owner' = OwnerAfter(t, tcur[t], queue, queue')
    /\ UNCHANGED <<auxVars, triggers, old, tree, found, uploader, inScheduleLoop,
                   order, fsVars, is_running, mainPc, stopResult,
                   processing_thread, tcur, tsucc, scanCur,
                   failures, metaCurrent, uploads, dequeues,
                   rejected, failureCounts, relocations>>

\* success = self.content_processor.process_file(next_file)
LoopProcessFile(t) ==
    /\ tpc[t] = "in_process"
    /\ \E o \in PipelineOutcomes(tcur[t]) :
          /\ loc' = [loc EXCEPT ![tcur[t]] = MovedLoc(tcur[t], o)]
          /\ sidecar' = [sidecar EXCEPT ![tcur[t]] = MovedSidecar(tcur[t], o)]
          /\ tsucc' = [tsucc EXCEPT ![t] = ProcessResult(o)]
          /\ RecordAttempt(tcur[t], o)
          /\ uploader' = UploaderAfter(o)
          /\ relocations' = [relocations EXCEPT ![tcur[t]] = RelocationsAfter(@, o)]
          /\ failureCounts' = IF StatCounter(o) \in FailureCounters
                               THEN failureCounts + 1 ELSE failureCounts
          \* an exception leaving process_file would leave the while loop too:
          \* the loop's try encloses the whole while statement
          /\ tpc' = [tpc EXCEPT ![t] = IF Caught(o) THEN "processed" ELSE "dead"]
    /\ UNCHANGED <<auxVars, triggers, old, tree, found, inScheduleLoop,
                   queue, order, ctype, is_running, mainPc, stopResult,
                   processing_thread, tcur, scanCur, dequeues, owner>>

\* a loop that never reports a failure, and one that reports one every time
LoopNeverCallsMarkFailed(success) == FALSE
LoopAlwaysCallsMarkFailed(success) == TRUE

\* if not success: the loop goes on to mark_failed
LoopCallsMarkFailed(success) == ~success

\* self.file_scanner.mark_completed(next_file['file_hash'], success), called
\* for every outcome
LoopMarkCompleted(t) ==
    /\ tpc[t] = "processed"
    /\ queue' = mark_completed(queue, tcur[t], tsucc[t])
    /\ IF LoopCallsMarkFailed(tsucc[t])
       THEN /\ tpc' = [tpc EXCEPT ![t] = "completed"]
            /\ UNCHANGED <<tcur, owner>>
       ELSE /\ tpc' = [tpc EXCEPT ![t] = "top"]
            /\ tcur' = [tcur EXCEPT ![t] = NoFile]
            /\ owner' = Released(t, tcur[t])
    /\ tsucc' = [tsucc EXCEPT ![t] = FALSE]
    /\ UNCHANGED <<auxVars, triggers, old, tree, found, uploader, inScheduleLoop,
                   order, fsVars, is_running, mainPc, stopResult,
                   processing_thread, scanCur, failures, metaCurrent, uploads, dequeues,
                   rejected, failureCounts, relocations>>

\* self.file_scanner.mark_failed(hash, "Processing failed", max_attempts=3),
\* then the queue-size report and the next iteration
LoopMarkFailed(t) ==
    /\ tpc[t] = "completed"
    /\ queue' = mark_failed(queue, tcur[t], "Processing failed", LoopMaxAttempts)
    /\ tpc' = [tpc EXCEPT ![t] = "top"]
    /\ tcur' = [tcur EXCEPT ![t] = NoFile]
    /\ owner' = Released(t, tcur[t])
    /\ UNCHANGED <<auxVars, triggers, old, tree, found, uploader, inScheduleLoop,
                   order, fsVars, is_running, mainPc, stopResult,
                   processing_thread, tsucc, scanCur,
                   failures, metaCurrent, uploads, dequeues,
                   rejected, failureCounts, relocations>>

\* the loop's positions at which it calls the lifecycle table: get_next_file,
\* mark_processing, mark_completed, mark_failed
TableCallSites == {"top", "got", "processed", "completed"}

\* a lifecycle-table call of the loop raises: the try of _processing_loop
\* encloses the whole while statement, so its handler logs the error and the
\* thread's function returns; is_running and the table are left as they are
LoopTableCallRaises(t) ==
    /\ tpc[t] \in TableCallSites
    /\ tpc[t] = "top" => LoopRuns(is_running)
    /\ tpc' = [tpc EXCEPT ![t] = "dead"]
    /\ UNCHANGED <<auxVars, triggers, old, tree, found, uploader, inScheduleLoop,
                   queue, order, fsVars, is_running, mainPc, stopResult,
                   processing_thread, tcur, tsucc, scanCur, histVars>>

\* ------------------------------------------------ run_single_scan
\* What one pass of the drain loop's body can meet (no caption handler, the
\* uploader exists already, nothing is relocated)
ScanOutcomes(f) ==
    {[kind |-> "analysis_error", err |-> "analysis_error", moved |-> FALSE]}
    \cup (IF loc[f] # "input" THEN {}
          ELSE IF Supported(f)
          THEN {[kind |-> "upload_ok", err |-> "", moved |-> FALSE]}
               \cup {[kind |-> "upload_fail", err |-> e, moved |-> FALSE] :
                         e \in UploadErrors}
          ELSE {[kind |-> "unsupported", err |-> "unsupported", moved |-> FALSE]})

\* add_user_directory, scan_user_directories, uploader.authenticate():
\* nothing found or a failed login skips the user
SingleScanUser(auth) ==
    /\ mainPc \in {"scan_new", "scan_done"}
    /\ ScanUserDirectories
    /\ mainPc' = IF NewlyFound(queue, loc) # {} /\ auth
                 THEN "scan_drain" ELSE "scan_done"
    /\ UNCHANGED <<managed_users, upl, proc, triggers, old, tree, found, uploader,
                   inScheduleLoop, fsVars, is_running, stopResult, threadVars,
                   scanCur, histVars>>

SingleScanBegin ==
    /\ \E auth \in BOOLEAN : SingleScanUser(auth)
    /\ UNCHANGED cli

\* next_file = scanner.get_next_file(); if not next_file: break
DrainGetNext ==
    /\ mainPc = "scan_drain"
    /\ queue' = get_next_file_table(queue, order)
    /\ LET f == FirstDiscovered(queue, order)
       IN  IF f = NoFile
           THEN /\ mainPc' = "scan_done"
                /\ UNCHANGED <<scanCur, dequeues>>
           ELSE /\ mainPc' = "scan_have"
                /\ scanCur' = f
                /\ dequeues' = [dequeues EXCEPT ![f] = @ + 1]
    /\ owner' = OwnerAfter("scan", FirstDiscovered(queue, order), queue, queue')
    /\ UNCHANGED <<auxVars, triggers, old, tree, found, uploader, inScheduleLoop,
                   order, fsVars, is_running, stopResult, threadVars,
                   failures, metaCurrent, uploads, rejected, failureCounts, relocations>>

\* a drain loop that reports only its successes to the table
DrainReportsSuccessOnly(q, f, o) ==
    IF o.kind = "upload_ok" THEN mark_completed(q, f, TRUE) ELSE q

\* the one table call each pass of the drain loop ends with: mark_completed
\* after a successful upload, mark_failed (default max_attempts) otherwise
DrainReports(q, f, o) ==
    IF o.kind = "upload_ok"
    THEN mark_completed(q, f, TRUE)
    ELSE mark_failed(q, f, o.err, DefaultMaxAttempts)

\* analyze, caption, upload and the mark_completed / mark_failed that follows
DrainProcess ==
    /\ mainPc = "scan_have"
    /\ \E o \in ScanOutcomes(scanCur) :
          /\ queue' = DrainReports(queue, scanCur, o)
          /\ RecordAttempt(scanCur, o)
    /\ mainPc' = "scan_drain"
    /\ scanCur' = NoFile
    /\ owner' = Released("scan", scanCur)
    /\ UNCHANGED <<auxVars, triggers, old, tree, found, uploader, inScheduleLoop,
                   order, fsVars, is_running, stopResult, threadVars, dequeues,
                   failureCounts, relocations>>

\* ------------------------------------------------------ main.py
\* main(): run <usernames>, scan <usernames> or status
CliMain(cmd, us) ==
    /\ cli.pc = "idle"
    /\ mainPc = IF cmd = "scan" THEN "scan_new" ELSE "new"
    /\ cli' = [cli EXCEPT !.cmd = cmd,
                          !.pc = IF cmd = "status" THEN "status" ELSE "validate",
                          !.usernames = IF cmd = "status" THEN <<>> ELSE us,
                          !.todo = IF cmd = "status" THEN <<>> ELSE us]
    /\ UNCHANGED <<managed_users, upl, proc, triggers, old, tree, found, uploader,
                   inScheduleLoop, queue, order, fsVars, is_running, mainPc,
                   stopResult, threadVars, scanCur, histVars>>

\* if not validate_environment(): return 1
CliValidate(ok) ==
    /\ cli.pc = "validate"
    /\ cli' = IF ok
              THEN [cli EXCEPT !.pc = IF cli.cmd = "run" THEN "setup_users"
                                                          ELSE "scan_users"]
              ELSE Return(cli, 1, TRUE)
    /\ UNCHANGED <<managed_users, upl, proc, triggers, old, tree, found, uploader,
                   inScheduleLoop, queue, order, fsVars, is_running, mainPc,
                   stopResult, threadVars, scanCur, histVars>>

\* setup_users, one pass of its loop: scheduler.add_user(username), which
\* scans the directory of a user it adds
CliSetupUser(ok) ==
    /\ cli.pc = "setup_users"
    /\ cli.todo # <<>>
    /\ LET u == Head(cli.todo)
       IN  /\ managed_users' = ManagedAfter(managed_users, u, ok)
           /\ IF managed_users' # managed_users
              THEN ScanUser(u)
              ELSE UNCHANGED <<queue, order>>
           /\ cli' = [cli EXCEPT
                        !.todo = Tail(cli.todo),
                        !.oks = Append(cli.oks, ok),
                        !.success_count =
                            IF AddUserResult(managed_users, u, ok) THEN @ + 1 ELSE @]
    /\ UNCHANGED <<upl, proc, triggers, old, tree, found, uploader,
                   inScheduleLoop, fsVars, is_running, mainPc,
                   stopResult, threadVars, scanCur, histVars>>

\* if not setup_users(usernames, scheduler): return 1
CliSetupDone ==
    /\ cli.pc = "setup_users"
    /\ cli.todo = <<>>
    /\ cli' = IF SetupUsersResult(cli.success_count, Len(cli.usernames))
              THEN [cli EXCEPT !.pc = "start"]
              ELSE Return(cli, 1, TRUE)
    /\ UNCHANGED <<managed_users, upl, proc, triggers, old, tree, found, uploader,
                   inScheduleLoop, queue, order, fsVars, is_running, mainPc,
                   stopResult, threadVars, scanCur, histVars>>

\* scheduler.start() as far as the trigger loop; k triggers are registered
\* before a registration raises
CliStart(k) ==
    /\ cli.pc = "start"
    /\ StartBody(k)
    /\ cli' = [cli EXCEPT !.pc = "started", !.raised = k < Len(Triggers)]

\* scheduler.start() when processing_thread.start() raises: start()'s
\* handler clears is_running and returns False, run_scheduler returns 1
CliStartThreadError(k) ==
    /\ cli.pc = "start"
    /\ ~is_running
    /\ triggers' = SetupSchedule(triggers, k)
    /\ processing_thread' = NewThread
    /\ is_running' = FALSE
    /\ cli' = [Return(cli, 1, TRUE) EXCEPT !.raised = k < Len(Triggers)]
    /\ UNCHANGED <<managed_users, upl, proc, old, tree, found, uploader,
                   inScheduleLoop, queue, order, fsVars, mainPc, stopResult,
                   tpc, tcur, tsucc, scanCur, histVars>>

\* scheduler.start() returned True once the trigger loop ended: return 0
CliStartReturns ==
    /\ cli.pc = "started"
    /\ ~inScheduleLoop
    /\ cli' = Return(cli, 0, FALSE)
    /\ UNCHANGED <<managed_users, upl, proc, triggers, old, tree, found, uploader,
                   inScheduleLoop, queue, order, fsVars, is_running, mainPc,
                   stopResult, threadVars, scanCur, histVars>>

\* run_single_scan, one user up to the drain loop: nothing found or a failed
\* uploader.authenticate() goes on to the next user
CliScanUser ==
    /\ cli.pc = "scan_users"
    /\ cli.todo # <<>>
    /\ \E auth \in BOOLEAN :
          /\ SingleScanUser(auth)
          /\ cli' = [cli EXCEPT
                        !.todo = Tail(cli.todo),
                        !.error = @ \/ (NewlyFound(queue, loc) # {} /\ ~auth)]

\* run_single_scan when a call outside the drain loop raises: return 1
CliScanException ==
    /\ cli.pc = "scan_users"
    /\ mainPc \in {"scan_new", "scan_done"}
    /\ cli.todo # <<>>
    /\ cli' = Return(cli, 1, TRUE)
    /\ UNCHANGED <<managed_users, upl, proc, triggers, old, tree, found, uploader,
                   inScheduleLoop, queue, order, fsVars, is_running, mainPc,
                   stopResult, threadVars, scanCur, histVars>>

\* run_single_scan past its last user: return 0
CliScanDone ==
    /\ cli.pc = "scan_users"
    /\ mainPc \in {"scan_new", "scan_done"}
    /\ cli.todo = <<>>
    /\ cli' = Return(cli, 0, FALSE)
    /\ UNCHANGED <<managed_users, upl, proc, triggers, old, tree, found, uploader,
                   inScheduleLoop, queue, order, fsVars, is_running, mainPc,
                   stopResult, threadVars, scanCur, histVars>>

\* show_status: 0 when the health endpoint answers 200, else 1
CliStatus(ok) ==
    /\ cli.pc = "status"
    /\ cli' = IF ok THEN Return(cli, 0, FALSE) ELSE Return(cli, 1, TRUE)
    /\ UNCHANGED <<managed_users, upl, proc, triggers, old, tree, found, uploader,
                   inScheduleLoop, queue, order, fsVars, is_running, mainPc,
                   stopResult, threadVars, scanCur, histVars>>

\* ------------------------------------ process_file, one stage per step
pipeVars == <<managed_users, cli, upl, triggers, old, tree, found, uploader,
              inScheduleLoop, queue, order, fsVars, is_running, mainPc,
              stopResult, threadVars, scanCur, histVars>>

\* _move_to_processed's dest_dir: on success by the text of the source
\* path ("videos" in str(file_path)), otherwise the failed directory
DestDir(status, videosInPath) ==
    IF status = "success"
    THEN (IF videosInPath THEN "processed_videos" ELSE "processed_images")
    ELSE "failed"

\* system_monitor.update_stats(...) as process_file calls it: in the branch
\* of a successful upload and in the branch of a failed upload, nowhere else
MonitorAfter(mon, kind) ==
    [c \in MonitorCounters |->
        IF \/ kind = "upload_ok" /\ c \in {"processed_files", "successful_uploads"}
           \/ kind = "upload_fail" /\ c = "failed_uploads"
        THEN mon[c] + 1 ELSE mon[c]]

\* process_file returns: the branch taken decides the counter and the result
PfReturn(p, failed, kind) ==
    LET o == [kind |-> kind]
    IN  [p EXCEPT !.pc = "returned",
                  !.monitor = MonitorAfter(p.monitor, kind),
                  !.failed = failed,
                  !.kind = kind,
                  !.result = ProcessResult(o),
                  !.stats = [c \in StatNames |->
                               IF c = StatCounter(o)
                                  \/ (c = "total_processed" /\ ProcessResult(o))
                               THEN p.stats[c] + 1 ELSE p.stats[c]]]

\* process_file(file_info) is called for a file of user u recorded as ct
PfBegin(u, ct, vp) ==
    /\ proc.pc \in {"idle", "returned"}
    /\ proc.n < MaxCalls
    /\ proc' = [proc EXCEPT !.pc = "analyze", !.n = @ + 1, !.user = u, !.ctype = ct,
                            !.videosInPath = vp, !.dest = "none",
                            !.calls = <<>>, !.failed = "none", !.kind = "none",
                            !.result = FALSE, !.analysis = NoAnalysis,
                            !.caption = NoCaption, !.captionFault = "none",
                            !.resolved = 0]
    /\ UNCHANGED pipeVars

\* an exception no stage accounts for (file_info without 'file_path', say):
\* the handler of process_file's outer try
PfUnexpected ==
    /\ proc.pc = "analyze"
    /\ proc' = PfReturn(proc, "process_file", "exception")
    /\ UNCHANGED pipeVars

\* Step 1: analysis_result = self.content_analyzer.analyze_file(file_path)
PfAnalyze(ft, fault) ==
    /\ proc.pc = "analyze"
    /\ LET res == analyze_file(ft, fault)
           p == [proc EXCEPT !.calls = Append(@, "analyze_file"), !.analysis = res]
       IN  proc' = IF res.raised THEN PfReturn(p, "analyze_file", "exception")
                   ELSE IF HasError(res)
                   THEN PfReturn(p, "analyze_file", "analysis_error")
                   ELSE [p EXCEPT !.pc = "caption"]
    /\ UNCHANGED pipeVars

\* Step 2: caption = self.caption_generator.generate_caption(...), inside
\* its own try / except
PfCaption(fault) ==
    /\ proc.pc = "caption"
    /\ LET res == generate_caption(fault)
           p == [proc EXCEPT !.calls = Append(@, "generate_caption"),
                             !.caption = res, !.captionFault = fault]
       IN  proc' = IF res.raised
                   THEN PfReturn(p, "generate_caption", "caption_error")
                   ELSE [p EXCEPT !.pc = "uploader"]
    /\ UNCHANGED pipeVars

\* Step 3: uploader = self.get_or_create_uploader(username); how is how the
\* creation goes when there is no cached uploader: "ok", "auth_failed" or
\* "create_raised" (the constructor raises)
PfGetUploader(how) ==
    /\ proc.pc = "uploader"
    /\ LET u == proc.user
           p == [proc EXCEPT !.calls = Append(@, "get_or_create_uploader")]
       IN  IF IsCached(proc.instagram_uploaders, u)
           THEN /\ how = "ok"
                /\ proc' = [p EXCEPT !.pc = "upload",
                                     !.resolved = proc.instagram_uploaders[u]]
           ELSE LET q == [p EXCEPT
                            !.creations[u] = @ + 1,
                            !.constructed = IF how = "create_raised" THEN @ ELSE @ + 1,
                            !.authenticate_calls[u] =
                                IF how = "create_raised" THEN @ ELSE @ + 1]
                IN  proc' = IF how = "ok"
                            THEN [q EXCEPT !.pc = "upload",
                                           !.instagram_uploaders[u] = q.constructed,
                                           !.resolved = q.constructed]
                            ELSE PfReturn(q, "get_or_create_uploader", "no_uploader")
    /\ UNCHANGED pipeVars

\* the upload by content type, the check of its result and the relocation
PfUpload(daily, ev) ==
    /\ proc.pc = "upload"
    /\ IF proc.ctype \notin {"image", "video"}
       THEN proc' = PfReturn(proc, "content_type", "unsupported")
       ELSE LET res == UploadResult(daily, ev)
                p == [proc EXCEPT
                         !.calls =
                             @ \o <<IF proc.ctype = "image" THEN "upload_photo"
                                                             ELSE "upload_video",
                                    "_move_to_processed">>,
                         !.dest = DestDir(IF res.success THEN "success" ELSE "failed",
                                          proc.videosInPath)]
            IN  proc' = IF res.success
                        THEN PfReturn(p, "none", "upload_ok")
                        ELSE PfReturn(p, "upload", "upload_fail")
    /\ UNCHANGED pipeVars

\* ------------------------------------- discovery over paths (4.2, 4.1)
\* the fingerprints of the files a walk of the tree meets, in walk order
RECURSIVE ListingFrom(_, _)
ListingFrom(tr, p) ==
    IF p > NumPaths THEN <<>>
    ELSE (IF tr[p] = NoFile THEN <<>> ELSE <<tr[p]>>) \o ListingFrom(tr, p + 1)

TreeFingerprints(tr) == {tr[p] : p \in Paths} \ {NoFile}

\* a discovery that takes every file it meets for a new one
IsNewAlways(q, f) == TRUE

\* record_if_new's result: whether the fingerprint was unknown
IsNew(q, f) == q[f].status = "NONE"

\* one file of the walk: fingerprint it, record_if_new, enqueue it and count
\* it when it was newly recorded
RecordFound(st, f) ==
    [q   |-> record_if_new(st.q, f),
     ord |-> IF IsNew(st.q, f) THEN Append(st.ord, f) ELSE st.ord,
     n   |-> IF IsNew(st.q, f) THEN st.n + 1 ELSE st.n]

RECURSIVE ScanListing(_, _)
ScanListing(st, l) ==
    IF l = <<>> THEN st
    ELSE ScanListing(RecordFound(st, Head(l)), Tail(l))

\* number of DISCOVERED entries waiting in the queue
QueueDepth(q, ord) ==
    Cardinality({i \in 1..Len(ord) : q[ord[i]].status = "DISCOVERED"})

\* everything but the lifecycle table and the tree
notDiscoveryVars ==
    <<loc, ctype, sidecar, is_running, mainPc, stopResult, processing_thread,
      tpc, tcur, tsucc, scanCur, failures, metaCurrent, uploads, dequeues, owner,
      rejected, failureCounts, relocations, uploader, inScheduleLoop, old,
      auxVars, triggers>>

\* A file with the bytes of fingerprint f appears at path p.
WriteFile(p, f) ==
    /\ tree[p] = NoFile
    /\ tree' = [tree EXCEPT ![p] = f]
    /\ found' = -1
    /\ UNCHANGED <<queue, order, notDiscoveryVars>>

\* The file at path p is taken away.
DeleteFile(p) ==
    /\ tree[p] # NoFile
    /\ tree' = [tree EXCEPT ![p] = NoFile]
    /\ found' = -1
    /\ UNCHANGED <<queue, order, notDiscoveryVars>>

\* scan_user_directories(username) over the tree: the newly recorded files
ScanTree ==
    /\ LET st == ScanListing([q |-> queue, ord |-> order, n |-> 0],
                             ListingFrom(tree, 1))
       IN  /\ queue' = st.q
           /\ order' = st.ord
           /\ found' = st.n
    /\ UNCHANGED <<tree, notDiscoveryVars>>

\* a consumer of the table: get_next_file, then mark_completed or mark_failed
ConsumerAcquire ==
    /\ FirstDiscovered(queue, order) # NoFile
    /\ queue' = get_next_file_table(queue, order)
    /\ found' = -1
    /\ UNCHANGED <<order, tree, notDiscoveryVars>>

ConsumerComplete(f) ==
    /\ queue[f].status = "PROCESSING"
    /\ queue' = mark_completed(queue, f, TRUE)
    /\ found' = -1
    /\ UNCHANGED <<order, tree, notDiscoveryVars>>

ConsumerFail(f) ==
    /\ queue[f].status = "PROCESSING"
    /\ queue' = mark_failed(queue, f, "Processing failed", DefaultMaxAttempts)
    /\ found' = -1
    /\ UNCHANGED <<order, tree, notDiscoveryVars>>

\* ------------------------------------------------ retention (4.1, 4.5)
\* dequeues of one fingerprint after which its entry is no longer purged
\* here: bounds the number of times a file left in the input tree is purged
\* and discovered again
MaxDequeuesPurged == 3

\* Time passes: an entry's age goes beyond the retention window.
EntryAges(f) ==
    /\ queue[f].status # "NONE"
    /\ ~old[f]
    /\ old' = [old EXCEPT ![f] = TRUE]
    /\ UNCHANGED <<auxVars, triggers, tree, found, uploader, inScheduleLoop, queue, order, fsVars,
                   is_running, mainPc, stopResult, threadVars, scanCur, histVars>>

\* InstagramScheduler._daily_cleanup, fired by the trigger loop:
\* self.file_scanner.cleanup_old_entries(days_to_keep=30)
DailyCleanup ==
    /\ mainPc = "schedule_loop"
    /\ is_running
    /\ \A f \in Files : dequeues[f] <= MaxDequeuesPurged
    /\ queue' = cleanup_old_entries(queue, old)
    /\ order' = KeepRecorded(queue', order)
    /\ old' = [f \in Files |-> old[f] /\ queue'[f].status # "NONE"]
    /\ UNCHANGED <<auxVars, triggers, tree, found, uploader, inScheduleLoop, fsVars,
                   is_running, mainPc, stopResult, threadVars, scanCur, histVars>>

\* ------------------------------------------------------ specification
Next ==
    \/ \E f \in Files, ct \in ContentTypes : DropFile(f, ct)
    \/ \E ok \in BOOLEAN : AddUser(ok)
    \/ ScheduledScan
    \/ Start
    \/ ScheduleLoopExit
    \/ StopBegin
    \/ StopJoined
    \/ StopJoinTimeout
    \/ \E t \in Threads : LoopExit(t)
    \/ \E t \in Threads : LoopGetNext(t)
    \/ \E t \in Threads : LoopMarkProcessing(t)
    \/ \E t \in Threads : LoopProcessFile(t)
    \/ \E t \in Threads : LoopMarkCompleted(t)
    \/ \E t \in Threads : LoopMarkFailed(t)
    \/ SingleScanBegin
    \/ DrainGetNext
    \/ DrainProcess

Spec == Init /\ [][Next]_vars

\* The continuous mode over more than one retention window: entries age and
\* the daily cleanup runs next to the processing loop.
RetentionInit == Init /\ mainPc = "new"

RetentionNext ==
    \/ \E f \in Files, ct \in ContentTypes : DropFile(f, ct)
    \/ \E ok \in BOOLEAN : AddUser(ok)
    \/ ScheduledScan
    \/ Start
    \/ ScheduleLoopExit
    \/ StopBegin
    \/ StopJoined
    \/ StopJoinTimeout
    \/ \E t \in Threads : LoopExit(t)
    \/ \E t \in Threads : LoopGetNext(t)
    \/ \E t \in Threads : LoopMarkProcessing(t)
    \/ \E t \in Threads : LoopProcessFile(t)
    \/ \E t \in Threads : LoopMarkCompleted(t)
    \/ \E t \in Threads : LoopMarkFailed(t)
    \/ \E f \in Files : EntryAges(f)
    \/ DailyCleanup

RetentionSpec == RetentionInit /\ [][RetentionNext]_vars

\* The FileScanner alone: files come and go at the paths of one user's input
\* tree, scans record them, a consumer moves the entries through their states.
DiscoveryInit == Init /\ mainPc = "new"

DiscoveryNext ==
    \/ \E p \in Paths, f \in Files : WriteFile(p, f)
    \/ \E p \in Paths : DeleteFile(p)
    \/ ScanTree
    \/ ConsumerAcquire
    \/ \E f \in Files : ConsumerComplete(f)
    \/ \E f \in Files : ConsumerFail(f)

DiscoverySpec == DiscoveryInit /\ [][DiscoveryNext]_vars

\* The command line: one invocation of run, scan or status from its arguments
\* to its exit code.  The processing loop is left idle.
StartupNext ==
    \/ \E f \in Files, ct \in ContentTypes : DropFile(f, ct)
    \/ \E cmd \in {"run", "scan", "status"}, us \in UserLists : CliMain(cmd, us)
    \/ \E ok \in BOOLEAN : CliValidate(ok)
    \/ \E ok \in BOOLEAN : CliSetupUser(ok)
    \/ CliSetupDone
    \/ \E k \in 0..Len(Triggers) : CliStart(k)
    \/ \E k \in 0..Len(Triggers) : CliStartThreadError(k)
    \/ CliStartReturns
    \/ ScheduledScan
    \/ ScheduleLoopExit
    \/ StopBegin
    \/ StopJoined
    \/ StopJoinTimeout
    \/ \E t \in Threads : LoopExit(t)
    \/ CliScanUser
    \/ CliScanException
    \/ CliScanDone
    \/ DrainGetNext
    \/ DrainProcess
    \/ \E ok \in BOOLEAN : CliStatus(ok)

StartupSpec == Init /\ [][StartupNext]_vars

\* The uploaders of the managed users, all logged in to the one platform
\* account, through the days.
UploaderNext ==
    \/ \E u \in Users : UplCreate(u)
    \/ \E u \in Users, ev \in UploadEvents : UplUpload(u, ev)
    \/ UplMidnight

UploaderInit == Init /\ mainPc = "new"

UploaderSpec == UploaderInit /\ [][UploaderNext]_vars

\* The pipeline of one ContentProcessor, stage by stage, over a few
\* process_file calls for the managed users.
PipelineNext ==
    \/ \E u \in Users, ct \in ContentTypes, vp \in BOOLEAN : PfBegin(u, ct, vp)
    \/ PfUnexpected
    \/ \E ft \in ContentTypes, fault \in AnalyzerFaults : PfAnalyze(ft, fault)
    \/ \E fault \in CaptionFaults : PfCaption(fault)
    \/ \E how \in {"ok", "auth_failed", "create_raised"} : PfGetUploader(how)
    \/ \E daily \in {0, max_daily_uploads}, ev \in UploadEvents : PfUpload(daily, ev)

PipelineInit == Init /\ mainPc = "new"

PipelineSpec == PipelineInit /\ [][PipelineNext]_vars

\* The continuous mode with its threads scheduled fairly: a processing-loop
\* thread that can take its next step eventually takes it (every external
\* call returns), and so does the trigger loop when its condition is false.
RunInit == Init /\ mainPc = "new"

RunNext ==
    \/ \E f \in Files, ct \in ContentTypes : DropFile(f, ct)
    \/ \E ok \in BOOLEAN : AddUser(ok)
    \/ ScheduledScan
    \/ Start
    \/ ScheduleLoopExit
    \/ StopBegin
    \/ StopJoined
    \/ StopJoinTimeout
    \/ \E t \in Threads : LoopExit(t)
    \/ \E t \in Threads : LoopGetNext(t)
    \/ \E t \in Threads : LoopMarkProcessing(t)
    \/ \E t \in Threads : LoopProcessFile(t)
    \/ \E t \in Threads : LoopMarkCompleted(t)
    \/ \E t \in Threads : LoopMarkFailed(t)

LoopStep(t) ==
    \/ LoopExit(t)
    \/ LoopGetNext(t)
    \/ LoopMarkProcessing(t)
    \/ LoopProcessFile(t)
    \/ LoopMarkCompleted(t)
    \/ LoopMarkFailed(t)

FairSpec ==
    /\ RunInit
    /\ [][RunNext]_vars
    /\ \A t \in Threads : WF_vars(LoopStep(t))
    /\ WF_vars(ScheduleLoopExit)

\* The fairly scheduled continuous mode in which a lifecycle-table call of
\* the processing loop may raise.
RaisingInit == Init /\ mainPc = "new"

RaisingNext ==
    \/ RunNext
    \/ \E t \in Threads : LoopTableCallRaises(t)

RaisingSpec ==
    /\ RaisingInit
    /\ [][RaisingNext]_vars
    /\ \A t \in Threads : WF_vars(LoopStep(t))
    /\ WF_vars(ScheduleLoopExit)

\* The scan command, from main() through run_single_scan, with its drain
\* loop scheduled fairly: every call the loop makes returns, so a pass that
\* can go on does.
ScanInit == Init /\ mainPc = "scan_new"

ScanNext ==
    \/ \E f \in Files, ct \in ContentTypes : DropFile(f, ct)
    \/ \E us \in UserLists : CliMain("scan", us)
    \/ \E ok \in BOOLEAN : CliValidate(ok)
    \/ CliScanUser
    \/ CliScanException
    \/ CliScanDone
    \/ DrainGetNext
    \/ DrainProcess

ScanSpec ==
    /\ ScanInit
    /\ [][ScanNext]_vars
    /\ WF_vars(DrainGetNext \/ DrainProcess)


\* ------------------------------------------------------------ claims
ScanMode == mainPc \in {"scan_new", "scan_drain", "scan_have", "scan_done"}

\* a consumer holds a file from the get_next_file that returned it until its
\* last mark_* call for it
Holds(t, f) == tcur[t] = f /\ tpc[t] \in {"got", "in_process", "processed", "completed"}
ScanHolds(f) == mainPc = "scan_have" /\ scanCur = f
Holders(f) == {t \in Threads : Holds(t, f)} \cup (IF ScanHolds(f) THEN {"scan"} ELSE {})
Unheld(f) == Holders(f) = {}

MaxAttemptsInForce == IF ScanMode THEN DefaultMaxAttempts ELSE LoopMaxAttempts

\* C1 (retry bound): an entry is FAILED exactly when max_attempts failures
\* of it have been reported; an item that has only failed so far, fewer than
\* max_attempts times, is back in DISCOVERED once its consumer has let go of
\* it; and a FAILED entry was dequeued max_attempts times, never again.
RetryBound ==
    \A f \in Files :
        /\ failures[f] <= MaxAttemptsInForce
        /\ queue[f].attempts <= MaxAttemptsInForce
        /\ queue[f].status = "FAILED" =>
              /\ failures[f] = MaxAttemptsInForce
              /\ queue[f].attempts = MaxAttemptsInForce
              /\ dequeues[f] = MaxAttemptsInForce
              /\ Unheld(f)
        /\ (Unheld(f) /\ queue[f].status # "NONE" /\ uploads[f] = 0) =>
              IF failures[f] < MaxAttemptsInForce
              THEN queue[f].status = "DISCOVERED"
              ELSE queue[f].status = "FAILED"

RetryBoundWitness ==
    \E f \in Files :
        /\ ~ScanMode
        /\ queue[f].status = "FAILED"
        /\ failures[f] = LoopMaxAttempts
        /\ loc[f] = "failed"

StopLeavesNoProcessing ==
    mainPc = "stopped" => \A f \in Files : queue[f].status # "PROCESSING"

TerminalFileRelocated ==
    \A f \in Files :
        queue[f].status \in Terminal => loc[f] \in {"processed", "failed"}

\* C7 (relocation on terminal upload failure only): a file is in the failed
\* directory only when its failed attempts have reached max_attempts.
FailedDirOnlyWhenTerminal ==
    \A f \in Files : loc[f] = "failed" => failures[f] >= LoopMaxAttempts

\* C8 (sidecar for every FAILED entry): in the continuous mode, the file of
\* a FAILED entry is in the failed directory with a .meta record that
\* carries the error of its last failure.
FailedHasSidecar ==
    \A f \in Files :
        (~ScanMode /\ queue[f].status = "FAILED") =>
            /\ loc[f] = "failed"
            /\ sidecar[f] # "none"
            /\ metaCurrent[f]

\* C9 (lifecycle transitions): every change of an entry's state is its
\* creation as DISCOVERED, DISCOVERED -> PROCESSING, PROCESSING -> COMPLETED
\* after a successful upload, PROCESSING -> DISCOVERED with attempts below
\* max, or PROCESSING -> FAILED with attempts at max.
LegalTransition(f) ==
    \/ queue[f].status = "NONE" /\ queue'[f].status = "DISCOVERED"
    \/ queue[f].status = "DISCOVERED" /\ queue'[f].status = "PROCESSING"
    \/ /\ queue[f].status = "PROCESSING" /\ queue'[f].status = "COMPLETED"
       /\ uploads'[f] >= 1
    \/ /\ queue[f].status = "PROCESSING" /\ queue'[f].status = "DISCOVERED"
       /\ queue'[f].attempts < MaxAttemptsInForce
    \/ /\ queue[f].status = "PROCESSING" /\ queue'[f].status = "FAILED"
       /\ queue'[f].attempts >= MaxAttemptsInForce

OnlyLegalTransitions ==
    [][\A f \in Files : queue'[f].status # queue[f].status => LegalTransition(f)]_vars

\* C10 (terminal immutability): a COMPLETED or FAILED entry never changes
\* again, neither its state nor its attempt count.
TerminalImmutable ==
    [][\A f \in Files : queue[f].status \in Terminal => queue'[f] = queue[f]]_vars

\* C11 (completion only on success): an entry becomes COMPLETED only in a
\* step in which, or after which, the uploader has reported success for it,
\* and the loop goes past its completion call only for an attempt whose
\* process_file returned True.
CompletionOnlyOnSuccess ==
    [][/\ \A f \in Files :
             (queue[f].status # "COMPLETED" /\ queue'[f].status = "COMPLETED")
                 => uploads'[f] >= 1
       /\ \A t \in Threads :
             (tpc[t] = "processed" /\ tpc'[t] # "processed") => tsucc[t]]_vars

\* C12 (content rejection is terminal): once the uploader has answered
\* FeedbackRequired for a file and its consumer has let go of it, the entry
\* is FAILED.
ContentRejectedIsTerminal ==
    \A f \in Files : (rejected[f] /\ Unheld(f)) => queue[f].status = "FAILED"

\* C13 (unsupported type is terminal): an item whose content type is neither
\* image nor video is never uploaded or relocated, and once an attempt on it
\* has failed and its consumer has let go of it, the entry is FAILED after
\* that one failure.
UnsupportedIsTerminal ==
    \A f \in Files :
        (queue[f].status # "NONE" /\ ~Supported(f)) =>
            /\ uploads[f] = 0
            /\ loc[f] \notin {"processed", "failed"}
            /\ (failures[f] >= 1 /\ Unheld(f)) =>
                  (queue[f].status = "FAILED" /\ failures[f] = 1)

\* C14 (one processing loop): at most one processing-loop thread is alive.
SingleLoopThread == Cardinality({t \in Threads : Alive(t)}) <= 1

\* C15 (no failure crashes the loop): in the continuous mode every failed
\* attempt has been answered by one fail call, or its thread is on its way to
\* that call; every failed attempt has incremented one failure counter of
\* the processor statistics; and a loop thread has ended only between two
\* iterations, never inside one.
RECURSIVE SumOver(_, _)
SumOver(fn, S) ==
    IF S = {} THEN 0
    ELSE LET x == CHOOSE y \in S : TRUE
         IN  fn[x] + SumOver(fn, S \ {x})

PendingFail(f) ==
    {t \in Threads : /\ tcur[t] = f
                     /\ \/ tpc[t] = "processed" /\ ~tsucc[t]
                        \/ tpc[t] = "completed"}

NoFailureCrashesLoop ==
    ~ScanMode =>
        /\ \A f \in Files :
              failures[f] = queue[f].attempts + Cardinality(PendingFail(f))
        /\ failureCounts = SumOver(failures, Files)
        /\ \A t \in Threads : tpc[t] = "dead" => (tcur[t] = NoFile /\ ~tsucc[t])

\* a thread is back at the top of the loop, and running, after each kind of
\* failure has been met: the file's three attempts failed, one of them an
\* upload that was refused
NoFailureCrashesLoopWitness ==
    \E t \in Threads, f \in Files :
        /\ tpc[t] = "top" /\ is_running
        /\ queue[f].status = "FAILED"
        /\ failures[f] = LoopMaxAttempts
        /\ failureCounts = LoopMaxAttempts
        /\ rejected[f]

\* C16 (dedup): the queue holds each recorded fingerprint once, whatever
\* number of paths carry its bytes and whenever they were scanned; a scan
\* records at most one entry per fingerprint in the tree; and the scan that
\* filled an empty table leaves as many entries, all waiting, as there are
\* distinct fingerprints in the tree.
DedupInvariant ==
    /\ \A i, j \in 1..Len(order) : i # j => order[i] # order[j]
    /\ {order[i] : i \in 1..Len(order)} = {f \in Files : queue[f].status # "NONE"}
    /\ found >= 0 => found <= Cardinality(TreeFingerprints(tree))
    /\ (found >= 0 /\ found = Len(order)) =>
          /\ found = Cardinality(TreeFingerprints(tree))
          /\ QueueDepth(queue, order) = found

\* two paths carry the same bytes and one scan has recorded them: one entry,
\* queue depth one
DedupInvariantWitness ==
    \E p1 \in Paths, p2 \in Paths :
        /\ p1 # p2
        /\ tree[p1] # NoFile /\ tree[p1] = tree[p2]
        /\ found = 1
        /\ Len(order) = 1
        /\ QueueDepth(queue, order) = 1

\* C17 (idempotent discovery): a scan leaves every existing entry as it was,
\* whatever its state; it reports as many new entries as there were unknown
\* fingerprints in the tree, none when all were known, and then it changes
\* neither the table nor the queue; after it every fingerprint in the tree
\* is known, so a second scan of the unchanged tree records nothing.
IdempotentDiscovery ==
    [][found' >= 0 =>
          /\ \A f \in Files : queue[f].status # "NONE" => queue'[f] = queue[f]
          /\ found' = Cardinality({f \in TreeFingerprints(tree) : queue[f].status = "NONE"})
          /\ (\A f \in TreeFingerprints(tree) : queue[f].status # "NONE") =>
                (found' = 0 /\ queue' = queue /\ order' = order)
          /\ \A f \in TreeFingerprints(tree') : queue'[f].status # "NONE"
      ]_vars

\* a scan has just met the file of a FAILED entry again and recorded nothing
IdempotentDiscoveryWitness ==
    \E p \in Paths :
        /\ tree[p] # NoFile
        /\ queue[tree[p]].status = "FAILED"
        /\ found = 0

\* C18 (retention): an entry is removed only when it is COMPLETED or FAILED
\* and older than the window; the step that removes one removes every such
\* entry and leaves every DISCOVERED and PROCESSING entry as it was.
RetentionOnlyTerminalOld ==
    [][(\E f \in Files : queue[f].status # "NONE" /\ queue'[f].status = "NONE") =>
          \A g \in Files :
              /\ (queue[g].status # "NONE" /\ queue'[g].status = "NONE")
                     => (queue[g].status \in Terminal /\ old[g])
              /\ (queue[g].status \in Terminal /\ old[g]) => queue'[g].status = "NONE"
              /\ queue[g].status \in {"DISCOVERED", "PROCESSING"} => queue'[g] = queue[g]
      ]_vars

\* an entry that had been dequeued is gone while a processing loop is alive
\* and running
RetentionOnlyTerminalOldWitness ==
    \E f \in Files, t \in Threads :
        /\ queue[f].status = "NONE"
        /\ dequeues[f] >= 1
        /\ Alive(t) /\ is_running

\* C19 (cooperative stop): a processing-loop thread ends only at the top of
\* its loop with the running flag cleared, never inside an iteration; it
\* takes a new item only while the flag is set; with the flag cleared every
\* live loop thread eventually ends (unless the scheduler is started again
\* first), and the trigger loop ends so that start() returns.
StopEndsLoops ==
    /\ [][\A t \in Threads :
             /\ (tpc[t] # "dead" /\ tpc'[t] = "dead") => (tpc[t] = "top" /\ ~is_running)
             /\ (tpc[t] = "top" /\ tpc'[t] = "got") => is_running]_vars
    /\ \A t \in Threads : (Alive(t) /\ ~is_running) ~> (~Alive(t) \/ is_running)
    /\ (inScheduleLoop /\ ~is_running) ~> ~inScheduleLoop

\* stop() has returned after a join that did not time out: the loop thread
\* has ended after working on an item, start() has returned
StopEndsLoopsWitness ==
    /\ mainPc = "stopped"
    /\ stopResult = "joined"
    /\ tpc[processing_thread] = "dead"
    /\ ~inScheduleLoop
    /\ \E f \in Files : dequeues[f] >= 1 /\ queue[f].status # "PROCESSING"

\* C20 (uploader sessions belong to the processing loop): no step logs the
\* cached uploader out while a processing-loop thread is inside process_file.
UploaderOnlyTouchedByLoop ==
    [][(uploader = "active" /\ uploader' = "logged_out") =>
          \A t \in Threads : tpc[t] # "in_process"]_vars

\* no processing-loop thread was ever started
NoLoopLaunched == \A t \in Threads : tpc[t] = "unborn"

\* C21 (trigger failure is fatal): when registering a trigger raised during
\* start(), the scheduler is not marked running, no processing loop was
\* launched, and the run command ends with the exit code of a failed start.
TriggerFailureIsFatal ==
    cli.raised =>
        /\ ~is_running
        /\ NoLoopLaunched
        /\ cli.pc = "done" => cli.exit = 1

\* the users add_user_directory accepted, among those setup_users has tried
Accepted == {cli.usernames[i] : i \in {j \in 1..Len(cli.oks) : cli.oks[j]}}

\* the run command is past setup_users
PastSetup ==
    /\ cli.cmd = "run"
    /\ \/ cli.pc \in {"start", "started"}
       \/ cli.pc = "done" /\ cli.at \in {"setup_users", "start", "started"}

ExitCodes ==
    cli.pc = "done" => cli.exit = IF cli.error THEN 1 ELSE 0

\* C24 (daily rate limit): the platform account takes no more than
\* max_daily_uploads uploads in one day, whichever managed users' uploaders
\* they go through.
DailyLimitPerAccount == upl.posted <= max_daily_uploads

RateLimitErrors == {"Rate limit exceeded", "Rate limited"}

\* C25 (rate-limit results): an upload result that reports a rate limit, the
\* local daily limit or the platform's please-wait answer, has success false
\* and carries a retry_after value.
RateLimitCarriesRetry ==
    upl.last.error \in RateLimitErrors =>
        /\ ~upl.last.success
        /\ upl.last.retry_after # "absent"

RateLimitCarriesRetryWitness ==
    /\ upl.last.error = "Rate limit exceeded"
    /\ upl.last.retry_after = "until_tomorrow"
    /\ \E u \in Users : upl.daily_uploads[u] = max_daily_uploads

\* the elements of a sequence
Range(sq) == {sq[i] : i \in 1..Len(sq)}

\* C26 (caption fallback): generate_caption returns caption text whatever
\* happens, a failure of the remote call never leaves it as an exception,
\* and after such a failure the text is a templated caption.
CaptionAlwaysReturned ==
    "generate_caption" \in Range(proc.calls) =>
        /\ ~proc.caption.raised
        /\ proc.caption.text
        /\ proc.captionFault = "llm" =>
              proc.caption.source \in {"simple_template", "fallback_template"}
        /\ proc.kind # "caption_error"

CaptionAlwaysReturnedWitness ==
    /\ proc.captionFault = "llm"
    /\ proc.caption.source = "simple_template"
    /\ proc.pc = "uploader"

\* C27 (analyzer never raises): analyze_file returns either a result with
\* category, caption, confidence and visual_features, or a result whose only
\* key is "error"; it never raises.
AnalyzerNeverRaises ==
    "analyze_file" \in Range(proc.calls) =>
        /\ ~proc.analysis.raised
        /\ \/ proc.analysis.keys = {"error"}
           \/ /\ {"category", "caption", "confidence", "visual_features"}
                    \subseteq proc.analysis.keys
              /\ "error" \notin proc.analysis.keys
        /\ proc.kind # "exception"

AnalyzerNeverRaisesWitness ==
    /\ proc.pc = "returned"
    /\ proc.kind = "analysis_error"
    /\ proc.analysis.keys = {"error"}
    /\ proc.stats["analysis_failures"] = MaxCalls

\* the stages of process_file in the order it calls them
StageOrder == <<"analyze_file", "generate_caption", "get_or_create_uploader", "upload">>

Stage(call) == IF call \in {"upload_photo", "upload_video"} THEN "upload" ELSE call

\* the stage calls of the current process_file call, the relocation left out
StageCalls ==
    LET c == SelectSeq(proc.calls, LAMBDA x : x # "_move_to_processed")
    IN  [i \in 1..Len(c) |-> Stage(c[i])]

IsPrefix(a, b) == Len(a) <= Len(b) /\ \A i \in 1..Len(a) : a[i] = b[i]

\* C28 (stage ordering): within one process_file call the analyzer is called
\* first and once, the caption generator only after an analysis without
\* error, the uploader is resolved only after a caption was produced and an
\* upload attempted only on a resolved uploader; after a stage has failed
\* the call has returned False with that stage as the last one called.
StageOrdering ==
    /\ IsPrefix(StageCalls, StageOrder)
    /\ "generate_caption" \in Range(proc.calls) =>
          "error" \notin proc.analysis.keys /\ ~proc.analysis.raised
    /\ "get_or_create_uploader" \in Range(proc.calls) =>
          proc.caption.text /\ ~proc.caption.raised
    /\ "upload" \in Range(StageCalls) => proc.resolved # 0
    /\ proc.failed \in Range(StageOrder) =>
          /\ proc.pc = "returned"
          /\ ~proc.result
          /\ StageCalls # <<>>
          /\ StageCalls[Len(StageCalls)] = proc.failed

StageOrderingWitness ==
    /\ proc.pc = "returned"
    /\ proc.failed = "get_or_create_uploader"
    /\ Len(proc.calls) = 3

\* C29 (uploader caching): a cached uploader stays in the cache, is the one
\* every later get_or_create_uploader call for its user returns, and is
\* never authenticated again; a creation that fails caches nothing, makes
\* process_file return False counted as a failed upload, and the next call
\* for the user tries the creation again.
UploaderCaching ==
    [][/\ \A u \in Users :
             IF IsCached(proc.instagram_uploaders, u)
             THEN /\ proc'.instagram_uploaders[u] = proc.instagram_uploaders[u]
                  /\ proc'.authenticate_calls[u] = proc.authenticate_calls[u]
                  /\ proc'.creations[u] = proc.creations[u]
             ELSE (Len(proc'.calls) = 3 /\ Len(proc.calls) = 2 /\ proc.user = u)
                     => proc'.creations[u] = proc.creations[u] + 1
       /\ (Len(proc'.calls) = 3 /\ Len(proc.calls) = 2) =>
             IF proc'.resolved # 0
             THEN /\ proc'.resolved = proc'.instagram_uploaders[proc.user]
                  /\ proc'.pc = "upload"
             ELSE /\ proc'.instagram_uploaders[proc.user] = 0
                  /\ proc'.pc = "returned"
                  /\ ~proc'.result
                  /\ proc'.kind = "no_uploader"
                  /\ proc'.stats["failed_uploads"] = proc.stats["failed_uploads"] + 1
      ]_vars

UploaderCachingWitness ==
    /\ proc.n = MaxCalls
    /\ proc.pc = "upload"
    /\ proc.constructed = 1
    /\ proc.stats["successful_uploads"] = MaxCalls - 1
    /\ proc.resolved = proc.instagram_uploaders[proc.user]

\* C30 (relocation at most once): over all the attempts of one fingerprint
\* the source file is relocated at most once, and no relocation is tried
\* after one that went through.
RelocatedAtMostOnce ==
    \A f \in Files :
        /\ relocations[f].moved <= 1
        /\ ~relocations[f].late
        /\ relocations[f].moved = 1 <=> loc[f] \in {"processed", "failed"}

RelocatedAtMostOnceWitness ==
    \E f \in Files :
        /\ relocations[f].moved = 1
        /\ loc[f] = "failed"
        /\ failures[f] = LoopMaxAttempts
        /\ queue[f].status = "FAILED"

\* C31 (sidecar for every file in the failed directory): a file that was
\* relocated into the failed directory has a .meta record next to it,
\* whatever error text the uploader returned.
FailedDirHasSidecar ==
    \A f \in Files : loc[f] = "failed" => sidecar[f] # "none"

\* C32 (relocation by content type): after a successful upload the file's
\* destination is processed/images for an item of content type image and
\* processed/videos for an item of content type video.
RelocatedByContentType ==
    proc.kind = "upload_ok" =>
        proc.dest = IF proc.ctype = "image" THEN "processed_images"
                                            ELSE "processed_videos"

\* the four counters of which a process_file call increments one
OutcomeCounters ==
    {"successful_uploads", "failed_uploads", "analysis_failures", "caption_failures"}

\* C34 (processor statistics): a process_file call increments exactly one of
\* successful_uploads, failed_uploads, analysis_failures and
\* caption_failures, successful_uploads exactly when it returns True and
\* then total_processed with it; total_processed = successful_uploads
\* throughout, and no counter ever decreases.
StatsOnePerCall ==
    [][/\ \A c \in StatNames : proc'.stats[c] >= proc.stats[c]
       /\ proc'.stats["total_processed"] = proc'.stats["successful_uploads"]
       /\ IF proc.pc # "returned" /\ proc'.pc = "returned"
          THEN /\ \E c \in OutcomeCounters :
                    /\ proc'.stats[c] = proc.stats[c] + 1
                    /\ \A d \in OutcomeCounters \ {c} : proc'.stats[d] = proc.stats[d]
               /\ proc'.result <=>
                     proc'.stats["successful_uploads"] = proc.stats["successful_uploads"] + 1
          ELSE proc'.stats = proc.stats
      ]_vars

StatsOnePerCallWitness ==
    /\ proc.pc = "returned"
    /\ proc.n = MaxCalls
    /\ proc.stats["successful_uploads"] = 1
    /\ proc.stats["total_processed"] = 1
    /\ proc.stats["failed_uploads"] = 1
    /\ proc.kind = "exception"

\* C35 (monitor agrees with the processor): between process_file calls the
\* counters pushed to the monitor equal the processor's own.
MonitorAgrees ==
    proc.pc \in {"idle", "returned"} =>
        /\ proc.monitor["successful_uploads"] = proc.stats["successful_uploads"]
        /\ proc.monitor["processed_files"] = proc.stats["total_processed"]
        /\ proc.monitor["failed_uploads"] = proc.stats["failed_uploads"]

\* C36 (add_user): add_user for a managed user returns True and changes
\* neither managed_users nor the lifecycle table (no rescan); add_user whose
\* directory registration fails returns False and changes neither; and as
\* long as the files' user is not managed, no scan of the continuous mode
\* records a file of that user.
AddUserIdempotent ==
    [][/\ Len(cli'.oks) = Len(cli.oks) + 1 =>
             LET u == Head(cli.todo)
                 ok == cli'.oks[Len(cli'.oks)]
                 returned == cli'.success_count = cli.success_count + 1
             IN  /\ u \in managed_users =>
                       /\ returned
                       /\ managed_users' = managed_users
                       /\ queue' = queue /\ order' = order
                 /\ (u \notin managed_users /\ ~ok) =>
                       /\ cli'.success_count = cli.success_count
                       /\ managed_users' = managed_users
                       /\ queue' = queue /\ order' = order
       /\ (cli'.cmd = "run" /\ FileUser \notin managed_users') =>
             \A f \in Files : queue'[f].status = "NONE"
      ]_vars

AddUserIdempotentWitness ==
    /\ cli.cmd = "run"
    /\ cli.usernames = <<"u1", "u1">>
    /\ cli.oks = <<TRUE, FALSE>>
    /\ cli.success_count = Len(cli.usernames)
    /\ managed_users = {"u1"}
    /\ \E f \in Files : loc[f] = "input" /\ queue[f].status = "NONE"


\* C37 (start is idempotent while running; triggers registered once): while
\* the scheduler is running each of the four triggers is registered exactly
\* once, after any number of start/stop cycles.
TriggersRegisteredOnce ==
    is_running => \A i \in 1..Len(Triggers) : triggers[i] = 1


\* C33 (no file is lost): while the scheduler is running the processing
\* loop's thread is alive, and every DISCOVERED entry eventually is COMPLETED
\* or FAILED with no consumer holding it, unless the scheduler is stopped,
\* also when a lifecycle-table call of the loop raises.
NoFileLost ==
    /\ [](is_running => Alive(processing_thread))
    /\ \A f \in Files :
          (queue[f].status = "DISCOVERED") ~>
              ((queue[f].status \in Terminal /\ Unheld(f)) \/ ~is_running)


\* C38 (the drain loop of the one-shot scan terminates): a drain loop that
\* has started ends; it ends with get_next_file returning nothing and every
\* recorded entry COMPLETED or FAILED; and no file is returned by
\* get_next_file more than max_attempts times.
DrainTerminates ==
    /\ [](\A f \in Files : dequeues[f] <= DefaultMaxAttempts)
    /\ [][(mainPc = "scan_drain" /\ mainPc' = "scan_done") =>
             /\ FirstDiscovered(queue, order) = NoFile
             /\ \A f \in Files : queue'[f].status \in Terminal \cup {"NONE"}]_vars
    /\ (mainPc \in {"scan_drain", "scan_have"}) ~> (mainPc = "scan_done")

\* a drain loop has ended after returning a file max_attempts times, the
\* file FAILED
DrainTerminatesWitness ==
    /\ mainPc = "scan_done"
    /\ \E f \in Files :
          /\ dequeues[f] = DefaultMaxAttempts
          /\ queue[f].status = "FAILED"

====
